---------------------------- MODULE Spec2Model ----------------------------
(***************************************************************************)
(* Model of the PCB coil generator (plugins/lib/coilgenerator.py and       *)
(* plugins/lib/generator.py).                                              *)
(*                                                                         *)
(* Lengths are integers in micrometres (UNIT of them per millimetre, the   *)
(* resolution of the "%.3f" serialisation); angles are whole degrees.      *)
(* sin/cos come from a table scaled by TRIG, atan2 is the whole degree     *)
(* whose direction is nearest to the point, sqrt is the nearest integer.   *)
(***************************************************************************)
EXTENDS Integers, Sequences, FiniteSets, TLC

\* ------------------------------------------------------------------ bounds
MaxLayers == 5
MaxTurns == 2
MaxCoord == 2
MaxRadius == 3
MinCount == 2
MaxFootprints == 3
MaxSaved == 3

\* --------------------------------------------------------------- constants
UNIT == 1000
TRIG == 100000
BREAKOUT_LEN == 500
LINE_FIXED_LEN == 138
ARC_FIXED_LEN == 147

\* layer names a board offers, top to bottom
BoardLayers == <<"F.Cu", "In1.Cu", "In2.Cu", "In3.Cu", "In4.Cu", "In5.Cu", "In6.Cu", "B.Cu">>

\* dimension sets (micrometres) the generation is run with
Dimensions ==
  { [trace_width |-> 127, trace_spacing |-> 127, via_diameter |-> 600,
     via_drill |-> 300, outer_diameter |-> 12000],
    [trace_width |-> 200, trace_spacing |-> 100, via_diameter |-> 400,
     via_drill |-> 200, outer_diameter |-> 8000] }

\* a dimension set (binary fractions of a millimetre, so that the code's floats are
\* exact) whose inner via ring has radius 0 for one turn per layer and whose
\* inner bridge has target radius 0 for two turns per layer
DegenerateDimensions ==
  { [trace_width |-> 250, trace_spacing |-> 250, via_diameter |-> 500,
     via_drill |-> 250, outer_diameter |-> 2500] }

\* ------------------------------------------------------------- arithmetic
Abs(n) == IF n < 0 THEN -n ELSE n

\* a / b rounded to the nearest integer, b > 0
RoundDiv(a, b) == (2 * a + b) \div (2 * b)

RECURSIVE SqrtIter(_, _)
SqrtIter(n, g) ==
  LET h == (g + n \div g) \div 2
  IN IF h >= g THEN g ELSE SqrtIter(n, h)

\* math.sqrt, to the nearest integer
SqrtRound(n, r) == IF n - r * r > r THEN r + 1 ELSE r
Sqrt(n) == IF n <= 0 THEN 0 ELSE SqrtRound(n, SqrtIter(n, n))

SinTab ==
  << 0, 1745, 3490, 5234, 6976, 8716, 10453, 12187, 13917, 15643,
     17365, 19081, 20791, 22495, 24192, 25882, 27564, 29237, 30902, 32557,
     34202, 35837, 37461, 39073, 40674, 42262, 43837, 45399, 46947, 48481,
     50000, 51504, 52992, 54464, 55919, 57358, 58779, 60182, 61566, 62932,
     64279, 65606, 66913, 68200, 69466, 70711, 71934, 73135, 74314, 75471,
     76604, 77715, 78801, 79864, 80902, 81915, 82904, 83867, 84805, 85717,
     86603, 87462, 88295, 89101, 89879, 90631, 91355, 92050, 92718, 93358,
     93969, 94552, 95106, 95630, 96126, 96593, 97030, 97437, 97815, 98163,
     98481, 98769, 99027, 99255, 99452, 99619, 99756, 99863, 99939, 99985,
     100000 >>

\* math.sin(math.radians(d)) * TRIG
SinTurn(m) ==
  IF m <= 90 THEN SinTab[m + 1]
  ELSE IF m <= 180 THEN SinTab[180 - m + 1]
  ELSE IF m <= 270 THEN -SinTab[m - 180 + 1]
  ELSE -SinTab[360 - m + 1]
Sin(d) == SinTurn(d % 360)

\* math.cos(math.radians(d)) * TRIG
Cos(d) == Sin(d + 90)

\* math.atan2(a, b) in degrees for a >= 0, b >= 0: the degree in 0..90 whose
\* direction (sin, cos) is nearest to (a, b), the first at which the
\* projection of (a, b) on the direction stops growing
Atan2Quadrant(a, b) ==
  IF a = 0 THEN 0
  ELSE IF b = 0 THEN 90
  ELSE CHOOSE d \in 0..90 :
         /\ d = 90 \/ a * Sin(d) + b * Cos(d) >= a * Sin(d + 1) + b * Cos(d + 1)
         /\ \A e \in 0..(d - 1) : a * Sin(e) + b * Cos(e) < a * Sin(e + 1) + b * Cos(e + 1)

\* math.atan2(a, b) * 180 / math.pi, in (-180, 180]
Atan2Signed(a, b, q) ==
  IF a >= 0 THEN (IF b >= 0 THEN q ELSE 180 - q)
  ELSE (IF b >= 0 THEN -q ELSE q - 180)
Atan2Deg(a, b) == Atan2Signed(a, b, Atan2Quadrant(Abs(a), Abs(b)))

\* ------------------------------------------------------------ generator.py
P2D(x, y) == [x |-> x, y |-> y]

\* number of digits of n >= 0
RECURSIVE Digits(_)
Digits(n) == IF n < 10 THEN 1 ELSE 1 + Digits(n \div 10)

\* len(f"{v:.3f}")
FmtLen(val) == (IF val < 0 THEN 1 ELSE 0) + Digits(Abs(val) \div UNIT) + 4

\* len(repr(P2D)) = len(f"{x:.3f} {y:.3f}") without the separating blank
P2DLen(p) == FmtLen(p.x) + FmtLen(p.y)


\* generator.line: the serialised fp_line entity
line(start, stop, width, layer) ==
  [kind |-> "fp_line", start |-> start, end |-> stop, width |-> width, layer |-> layer]

\* generator.arc: the serialised fp_arc entity; start and end are written
\* swapped when swap_start_stop is set (the flag is kept with the entity)
arc(start, mid, stop, width, layer, swap_start_stop) ==
  [kind |-> "fp_arc",
   start |-> IF swap_start_stop THEN stop ELSE start,
   mid |-> mid,
   end |-> IF swap_start_stop THEN start ELSE stop,
   width |-> width, layer |-> layer, swap |-> swap_start_stop]

\* generator.via: padnum defaults to 0
via(loc, diameter, drill, padnum) ==
  [kind |-> "via", at |-> loc, diameter |-> diameter, drill |-> drill, padnum |-> padnum]

\* generator.pad
pad(pid, loc, width, height, layer) ==
  [kind |-> "pad", pid |-> pid, at |-> loc, width |-> width, height |-> height, layer |-> layer]

\* len() of the string generator.line / generator.arc returns
StrLen(e) ==
  IF e.kind = "fp_line"
  THEN LINE_FIXED_LEN + P2DLen(e.start) + P2DLen(e.end) + FmtLen(e.width) + Len(e.layer)
  ELSE ARC_FIXED_LEN + P2DLen(e.start) + P2DLen(e.mid) + P2DLen(e.end)
       + FmtLen(e.width) + Len(e.layer)

\* list.append(s) / list.extend([s, ...]): the string is one element of the list
Whole(e, by) == [e |-> e, n |-> 1, by |-> by]

\* list.extend(s) with s a string: every character becomes an element
Chars(e, by) == [e |-> e, n |-> StrLen(e), by |-> by]

\* generator.loop: the two half-turn arcs of one turn
loop(radius, increment, width, layer, wrap_multiplier) ==
  << Whole(arc(P2D(radius, 0), P2D(0, -wrap_multiplier * radius), P2D(-radius, 0),
               width, layer, wrap_multiplier + 1 # 0), "loop"),
     Whole(arc(P2D(-radius, 0),
               P2D(increment \div 2, wrap_multiplier * (radius + increment \div 2)),
               P2D(radius + increment, 0),
               width, layer, wrap_multiplier + 1 # 0), "loop") >>

\* --------------------------------------------------------- coilgenerator.py
Connector(x, y, angle) == [x |-> x, y |-> y, angle |-> angle]

\* mutant: line 344 without the + 1
num_vias_inside_floor(num_vias) == num_vias \div 2

\* line 344
num_vias_inside(num_vias) == num_vias \div 2 + 1

\* mutant: the parity correction of line 343 is not applied
get_num_vias_no_parity(layer_count) ==
  [inside |-> num_vias_inside(layer_count), outside |-> num_vias_inside(layer_count) - 1]

get_num_vias(layer_count) ==
  [inside |-> num_vias_inside(layer_count - (1 - (layer_count % 2))),
   outside |-> num_vias_inside(layer_count - (1 - (layer_count % 2))) - 1]

get_via_radius(outer_diameter, turns_per_layer, trace_width, trace_spacing, via_diameter) ==
  [inside |-> outer_diameter \div 2 - turns_per_layer * trace_width
              - (turns_per_layer - 1) * trace_spacing - via_diameter
              - (trace_width + trace_spacing),
   outside |-> outer_diameter \div 2 + via_diameter + 2 * trace_spacing + trace_width]

get_angle_degree_of_point(point) == Atan2Deg(point.x, point.y)

\* mutant: the conventional axis order, P2D(a, b)
get_point_on_circle_xy(angle_deg, radius) ==
  P2D(RoundDiv(Cos(angle_deg) * radius, TRIG), RoundDiv(Sin(angle_deg) * radius, TRIG))

\* a = cos * radius, b = sin * radius, P2D(b, a)
get_point_on_circle(angle_deg, radius) ==
  P2D(RoundDiv(Sin(angle_deg) * radius, TRIG), RoundDiv(Cos(angle_deg) * radius, TRIG))

\* the divisions of get_point_radius_reduced raise ZeroDivisionError
RadiusReducedRaises(point, radius) ==
  radius = 0 \/ (point.x = 0 /\ point.y = 0)

\* x / (hypotenuse / radius)
Rescaled(point, radius, hypotenuse) ==
  IF radius >= 0
  THEN P2D(RoundDiv(point.x * radius, hypotenuse), RoundDiv(point.y * radius, hypotenuse))
  ELSE P2D(-RoundDiv(point.x * (-radius), hypotenuse),
           -RoundDiv(point.y * (-radius), hypotenuse))
get_point_radius_reduced(point, radius) ==
  Rescaled(point, radius, Sqrt(point.x * point.x + point.y * point.y))

get_point_distance(point_a, point_b) ==
  Sqrt((point_a.x - point_b.x) * (point_a.x - point_b.x)
       + (point_a.y - point_b.y) * (point_a.y - point_b.y))

\* lines 452-453, 455-456, 459-460: 360 is added to a negative angle
AddTurn(angle) == IF angle < 0 THEN 360 + angle ELSE angle
\* mutant: lines 465-466 are missing
Directed_uncollapsed(result, clockwise) ==
  IF ~clockwise THEN 360 - result ELSE result

\* lines 462-466
Directed(result, clockwise) ==
  IF ~clockwise
  THEN (IF 360 - result = 360 THEN 0 ELSE 360 - result)
  ELSE (IF result = 360 THEN 0 ELSE result)
get_angle_degree_between(point_a, point_b, clockwise) ==
  Directed(AddTurn(AddTurn(get_angle_degree_of_point(point_a))
                   - AddTurn(get_angle_degree_of_point(point_b))), clockwise)

\* radius 1 (mm) is UNIT
centerpoint_of(point_a_red, point_b_red, radius) ==
  get_point_on_circle(Atan2Deg((point_a_red.x + point_b_red.x) \div 2,
                               (point_a_red.y + point_b_red.y) \div 2), radius)
get_circle_section_centerpoint(point_a, point_b, radius) ==
  centerpoint_of(get_point_radius_reduced(point_a, UNIT),
                 get_point_radius_reduced(point_b, UNIT), radius)

\* ---- connect_via: what one call appends to arcs and to lines, or that it
\* raises ZeroDivisionError.  c carries the arguments of the call and the
\* locals computed so far.
BridgeRaised == [raises |-> TRUE]

\* mutant: the closing line starts at the spiral end whatever was drawn before
bridge_line_from_end(c, partial, new_arcs, current) ==
  [raises |-> FALSE, half |-> c.half, partial |-> partial,
   target_radius |-> c.target, nearest |-> c.nearest,
   arcs |-> new_arcs,
   lines |-> <<Chars(line(c.loop_end_point, c.anchor, c.trace_width, c.layer_name),
                     "bridge")>>]

\* lines 565-572: the closing line from the current point to the via
bridge_line(c, partial, new_arcs, current) ==
  [raises |-> FALSE, half |-> c.half, partial |-> partial,
   target_radius |-> c.target, nearest |-> c.nearest,
   arcs |-> new_arcs,
   lines |-> <<Chars(line(current, c.anchor, c.trace_width, c.layer_name), "bridge")>>]

\* lines 552-563; remaining_angle is a number of degrees, the distance a number
\* of millimetres
bridge_partial(c, remaining_angle) ==
  IF c.bridging /\ remaining_angle * UNIT >= 3 * c.loop_increment
  THEN IF RadiusReducedRaises(c.current, UNIT) \/ RadiusReducedRaises(c.nearest, UNIT)
       THEN BridgeRaised
       ELSE bridge_line(c, TRUE,
              c.arcs \o <<Chars(arc(c.current,
                                    get_circle_section_centerpoint(c.current, c.nearest,
                                      (c.target - c.current_radius) \div 2
                                      + c.current_radius),
                                    c.nearest, c.trace_width, c.layer_name,
                                    ~(c.inside = c.clockwise)), "partial")>>,
              c.nearest)
  ELSE bridge_line(c, FALSE, c.arcs, c.current)

\* line 550
bridge_remaining(c) ==
  bridge_partial(c, get_angle_degree_between(c.current, c.nearest,
                                             c.inside = c.clockwise))

\* mutant: lines 536-537 are missing, the midpoint is never mirrored
center_point_unmirrored(inside, clockwise, arc_center_radius) ==
  P2D(0, arc_center_radius)

\* lines 535-537: the midpoint of the half circle
center_point(inside, clockwise, arc_center_radius) ==
  P2D(0, IF inside # clockwise THEN -arc_center_radius ELSE arc_center_radius)

\* mutant: lines 546-547 are missing, the current point stays the spiral end
bridge_half_arc_current_kept(c, arc_target_radius, arc_center_radius, opposite_point) ==
  bridge_remaining(
    [c EXCEPT !.half = TRUE,
              !.arcs = <<Chars(arc(c.loop_end_point,
                                   center_point(c.inside, c.clockwise, arc_center_radius),
                                   opposite_point, c.trace_width, c.layer_name,
                                   ~(c.clockwise = c.inside)), "half")>>])

\* lines 534-547: the half circle to opposite_point
bridge_half_arc(c, arc_target_radius, arc_center_radius, opposite_point) ==
  bridge_remaining(
    [c EXCEPT !.half = TRUE,
              !.current = opposite_point,
              !.current_radius = arc_target_radius,
              !.arcs = <<Chars(arc(c.loop_end_point,
                                   center_point(c.inside, c.clockwise, arc_center_radius),
                                   opposite_point, c.trace_width, c.layer_name,
                                   ~(c.clockwise = c.inside)), "half")>>])

\* lines 523-532
bridge_half_radius(c, arc_target_radius) ==
  IF RadiusReducedRaises(P2D(-c.loop_end_point.x, -c.loop_end_point.y),
                         arc_target_radius)
  THEN BridgeRaised
  ELSE bridge_half_arc(c, arc_target_radius,
         IF c.inside THEN arc_target_radius + c.loop_increment \div 2
         ELSE arc_target_radius,
         get_point_radius_reduced(P2D(-c.loop_end_point.x, -c.loop_end_point.y),
                                  arc_target_radius))

\* mutant: line 522 tests > 180
bridge_half_strict(c) ==
  IF /\ c.bridging
     /\ get_angle_degree_between(c.loop_end_point, c.nearest,
                                 c.inside = c.clockwise) > 180
  THEN bridge_half_radius(c, IF c.inside THEN c.target ELSE c.target - c.loop_increment)
  ELSE bridge_remaining(c)

\* lines 519-522
bridge_half(c) ==
  IF /\ c.bridging
     /\ get_angle_degree_between(c.loop_end_point, c.nearest,
                                 c.inside = c.clockwise) >= 180
  THEN bridge_half_radius(c, IF c.inside THEN c.target ELSE c.target - c.loop_increment)
  ELSE bridge_remaining(c)

\* lines 513-519
bridge_target(end_point_radius, loop_end_point, loop_increment, layer_name, trace_width, inside, clockwise, anchor, target_radius_closest_to_via) ==
  IF RadiusReducedRaises(anchor, target_radius_closest_to_via)
  THEN BridgeRaised
  ELSE bridge_half(
         [loop_end_point |-> loop_end_point, loop_increment |-> loop_increment,
          layer_name |-> layer_name, trace_width |-> trace_width, inside |-> inside,
          clockwise |-> clockwise, anchor |-> anchor,
          target |-> target_radius_closest_to_via,
          nearest |-> get_point_radius_reduced(anchor, target_radius_closest_to_via),
          bridging |-> get_point_distance(loop_end_point, anchor) >= 3 * loop_increment,
          half |-> FALSE, current |-> loop_end_point,
          current_radius |-> end_point_radius, arcs |-> << >>])

\* mutant: the target radius lies outwards of the endpoint for both rings
connect_via_outwards(end_point_radius, loop_end_point, loop_increment, layer_name, trace_width, inside, clockwise, arc_connector) ==
  bridge_target(end_point_radius, loop_end_point, loop_increment, layer_name,
                trace_width, inside, clockwise, P2D(arc_connector.x, arc_connector.y),
                end_point_radius + loop_increment)

\* lines 505-511: the target radius and the via's position
connect_via(end_point_radius, loop_end_point, loop_increment, layer_name, trace_width, inside, clockwise, arc_connector) ==
  bridge_target(end_point_radius, loop_end_point, loop_increment, layer_name,
                trace_width, inside, clockwise, P2D(arc_connector.x, arc_connector.y),
                IF inside THEN end_point_radius - loop_increment
                ELSE end_point_radius + loop_increment)

\* ------------------------------------------------------------------- state
VARIABLES
  layer_count, wrap_clockwise, turns_per_layer, dim, layer_names,  \* arguments of generate
  pc,               \* position in generate
  v,                \* loop variable of generate_vias
  vias,             \* list of via strings
  arc_connectors,   \* list of Connector
  layer,            \* loop variable of generate_coil_spiral
  turn,             \* loop variable of the turns loop
  current_radius,   \* current_radius of generate_coil_spiral
  arcs,             \* list of arc strings
  lines,            \* list of line strings
  pads,             \* list of pad strings
  bridges,          \* history: the calls of connect_via
  error,            \* the exception that ended generate, or "none"
  output,           \* what generate returned
  mirror,           \* the lists of the same call with wrap_clockwise flipped
  call,             \* a call of a geometry primitive: its name and arguments
  ret,              \* what the call returned
  footprints,       \* plugin.py: the references of the selected footprints, in board order
  saved_order,      \* custom_order of the settings file, << >> if there is none
  entries,          \* what the settings dialog holds when it is closed
  custom_order,     \* SettingsDialog.custom_order
  rpc,              \* position in Plugin.Run
  ordered,          \* the footprints list Run iterates over, as positions in the selection
  slot,             \* loop variable i of Run
  moves             \* per selected footprint, the SetPosition calls made on it

args == <<layer_count, wrap_clockwise, turns_per_layer, dim, layer_names>>
coil == <<layer_count, wrap_clockwise, turns_per_layer, dim, layer_names, pc, v, vias,
          arc_connectors, layer, turn, current_radius, arcs, lines, pads, bridges,
          error, output>>
layout == <<footprints, saved_order, entries, custom_order, rpc, ordered, slot, moves>>
vars == <<coil, mirror, call, ret, layout>>

NoOutput == [returned |-> FALSE]
UNBOUND == -1
NoMirror == [arcs |-> << >>, lines |-> << >>, vias |-> << >>, pads |-> << >>,
             bridges |-> << >>, raised |-> FALSE]
NoCall == [fn |-> "none"]
\* Plugin.Run is not called
NotRun ==
  /\ footprints = << >>
  /\ saved_order = << >>
  /\ entries = [numbers |-> TRUE, orientation_index |-> 1, custom_angle |-> TRUE,
                direction_index |-> 0, rotate |-> TRUE]
  /\ custom_order = << >>
  /\ rpc = "none"
  /\ ordered = << >>
  /\ slot = 0
  /\ moves = << >>

trace_width == dim.trace_width
trace_spacing == dim.trace_spacing
via_diameter == dim.via_diameter
via_drill == dim.via_drill
outer_diameter == dim.outer_diameter
increment == trace_width + trace_spacing
\* line 104
start_radius ==
  outer_diameter \div 2 - turns_per_layer * trace_width
  - (turns_per_layer - 1) * trace_spacing

\* generate has been called and nothing has run yet
Called ==
  /\ pc = "generate_vias"
  /\ v = 0
  /\ vias = << >>
  /\ arc_connectors = << >>
  /\ layer = 0
  /\ turn = 0
  /\ current_radius = UNBOUND
  /\ arcs = << >>
  /\ lines = << >>
  /\ pads = << >>
  /\ bridges = << >>
  /\ error = "none"
  /\ output = NoOutput
  /\ mirror = NoMirror

Init ==
  /\ layer_count \in (-MinCount)..MaxLayers
  /\ wrap_clockwise \in BOOLEAN
  /\ turns_per_layer \in (-MinCount)..MaxTurns
  /\ dim \in Dimensions
  /\ \E n \in 0..MaxLayers : layer_names = SubSeq(BoardLayers, 1, n)
  /\ Called
  /\ call = NoCall
  /\ ret = NoCall
  /\ NotRun

\* mutant: the exception is caught and what was built so far is returned
Raise_caught(exception) ==
  /\ pc' = "done"
  /\ error' = exception
  /\ output' = [returned |-> TRUE, LINES |-> lines, ARCS |-> arcs, VIAS |-> vias,
                PADS |-> pads]

\* an exception leaves generate: nothing is returned
Raise(exception) ==
  /\ pc' = "error"
  /\ error' = exception
  /\ output' = NoOutput

\* ------------------------------------------------------------ generate_vias
\* mutant: the divisions of lines 191-194 are skipped for a zero count
PlanVias_guarded ==
  /\ pc = "generate_vias"
  /\ pc' = "place_vias"
  /\ v' = 0
  /\ UNCHANGED <<args, vias, arc_connectors, layer, turn, current_radius, arcs, lines,
                 pads, bridges, error, output>>

\* lines 181-197: radii, counts and degree steps
PlanVias ==
  /\ pc = "generate_vias"
  /\ IF get_num_vias(layer_count).inside = 0
     THEN Raise("ZeroDivisionError")
     ELSE /\ pc' = "place_vias"
          /\ UNCHANGED <<error, output>>
  /\ v' = 0
  /\ UNCHANGED <<args, vias, arc_connectors, layer, turn, current_radius, arcs, lines,
                 pads, bridges>>

via_count == get_num_vias(layer_count).inside + get_num_vias(layer_count).outside

\* mutant: lines 216-217 are missing, the width keeps the sign of the square root
via_at_unsigned(via_used_radius, rotation_degree, height) ==
  Connector(Sqrt(via_used_radius * via_used_radius - height * height),
            height, rotation_degree)

\* lines 213-219
via_at(via_used_radius, rotation_degree, height) ==
  Connector((IF rotation_degree > 90 /\ rotation_degree < 270 THEN -1 ELSE 1)
              * Sqrt(via_used_radius * via_used_radius - height * height),
            height, rotation_degree)

\* lines 211-213
via_rotated(via_used_radius, rotation_degree) ==
  via_at(via_used_radius, rotation_degree,
         RoundDiv(Sin(rotation_degree) * via_used_radius, TRIG))

\* lines 201-211: the Connector of via number n
via_placed(n, radius, num) ==
  via_rotated(IF n % 2 # 0 THEN radius.outside ELSE radius.inside,
              (n \div 2) * (IF n % 2 # 0 THEN 360 \div num.outside
                            ELSE 360 \div num.inside))

via_connector(n) ==
  via_placed(n, get_via_radius(outer_diameter, turns_per_layer, trace_width,
                               trace_spacing, via_diameter),
             get_num_vias(layer_count))

\* mutant: line 222 without the test of odd_layer_count
via_padnum_any_parity(n) == IF n = via_count - 1 THEN 2 ELSE 0

\* lines 221-238: the pad number of via number n
via_padnum(n) == IF layer_count % 2 = 1 /\ n = via_count - 1 THEN 2 ELSE 0

\* one iteration of the loop of lines 199-238
PlaceVia ==
  /\ pc = "place_vias"
  /\ v < via_count
  /\ arc_connectors' = Append(arc_connectors, via_connector(v))
  /\ vias' = Append(vias, Whole(via(P2D(arc_connectors'[v + 1].x,
                                        arc_connectors'[v + 1].y),
                                    via_diameter, via_drill, via_padnum(v)), "via"))
  /\ v' = v + 1
  /\ UNCHANGED <<args, pc, layer, turn, current_radius, arcs, lines, pads, bridges,
                 error, output>>

\* generate_vias returns, generate_coil_spiral starts
EndVias ==
  /\ pc = "place_vias"
  /\ v >= via_count
  /\ pc' = "spiral_layer"
  /\ layer' = 0
  /\ UNCHANGED <<args, v, vias, arc_connectors, turn, current_radius, arcs, lines, pads,
                 bridges, error, output>>

\* ----------------------------------------------------- generate_coil_spiral
\* the operators that read wrap_clockwise take it as the parameter clockwise

\* mutant: the winding direction is not consulted
wrap_direction_multiplier_fixed(clockwise) == 1

wrap_direction_multiplier(clockwise) == IF clockwise THEN 1 ELSE -1
inverse_turn_mult == IF layer % 2 # 0 THEN -1 ELSE 1

\* mutant: lines 125-130 with the two branches of the first via exchanged
first_via_inside_swapped == layer % 2 = 0

\* lines 125-130
first_via_inside == layer % 2 # 0
second_via_inside == layer % 2 = 0
current_clockwise(clockwise) ==
  (clockwise /\ layer % 2 = 0) \/ (~clockwise /\ layer % 2 = 1)
loop_inner_point == P2D(start_radius, 0)
loop_outer_point == P2D(current_radius, 0)

\* layer_names[layer] raises IndexError
missing_layer_name == layer >= Len(layer_names)

\* mutant: line 142 skips the second layer too
connects_first_late == layer > 1

\* line 142
connects_first == layer > 0

\* mutant: line 152 without the odd layer count case
connects_second_inner_only == layer < layer_count - 1

\* line 152
connects_second == layer < layer_count - 1 \/ layer_count % 2 # 0

\* mutant: line 106 is run for the first layer only
BeginLayer_radius_kept ==
  /\ pc = "spiral_layer"
  /\ layer < layer_count
  /\ current_radius' = IF layer = 0 THEN start_radius ELSE current_radius
  /\ turn' = 0
  /\ pc' = "spiral_turn"
  /\ UNCHANGED <<args, v, vias, arc_connectors, layer, arcs, lines, pads, bridges,
                 error, output>>

\* line 106: a layer starts at start_radius
BeginLayer ==
  /\ pc = "spiral_layer"
  /\ layer < layer_count
  /\ current_radius' = start_radius
  /\ turn' = 0
  /\ pc' = "spiral_turn"
  /\ UNCHANGED <<args, v, vias, arc_connectors, layer, arcs, lines, pads, bridges,
                 error, output>>

\* lines 115-121: the arcs of one turn
turn_arcs(clockwise) ==
  loop(current_radius, increment, trace_width, layer_names[layer + 1],
       wrap_direction_multiplier(clockwise) * inverse_turn_mult)

\* lines 114-122: one turn
SpiralTurn ==
  /\ pc = "spiral_turn"
  /\ turn < turns_per_layer
  /\ IF missing_layer_name
     THEN /\ Raise("IndexError")
          /\ UNCHANGED <<arcs, current_radius, turn>>
     ELSE /\ arcs' = arcs \o turn_arcs(wrap_clockwise)
          /\ current_radius' = current_radius + increment
          /\ turn' = turn + 1
          /\ UNCHANGED <<pc, error, output>>
  /\ UNCHANGED <<args, v, vias, arc_connectors, layer, lines, pads, bridges>>

\* lines 143-150, 153-160: the call of connect_via towards arc_connectors[index]
via_bridge(clockwise, inside, index) ==
  connect_via(IF inside THEN start_radius ELSE current_radius,
              IF inside THEN loop_inner_point ELSE loop_outer_point,
              increment, layer_names[layer + 1], trace_width, inside,
              current_clockwise(clockwise), arc_connectors[index + 1])

\* history: one call of connect_via that returned r
bridge_record(r, clockwise, inside, index, arcs_before, lines_before) ==
  [layer |-> layer, index |-> index, inside |-> inside,
   clockwise |-> current_clockwise(clockwise),
   end_point_radius |-> IF inside THEN start_radius ELSE current_radius,
   loop_end_point |-> IF inside THEN loop_inner_point ELSE loop_outer_point,
   target_radius |-> r.target_radius, nearest |-> r.nearest,
   half |-> r.half, partial |-> r.partial,
   arcs_at |-> Len(arcs_before), lines_at |-> Len(lines_before)]

\* mutant: the exception of connect_via is caught and the bridge left out
Connected_caught(r, inside, index, next_pc, next_layer) ==
  /\ arcs' = IF r.raises THEN arcs ELSE arcs \o r.arcs
  /\ lines' = IF r.raises THEN lines ELSE lines \o r.lines
  /\ bridges' = IF r.raises THEN bridges
                ELSE Append(bridges,
                            bridge_record(r, wrap_clockwise, inside, index, arcs, lines))
  /\ pc' = next_pc
  /\ layer' = next_layer
  /\ UNCHANGED <<error, output>>

\* the effect of one call of connect_via that returned r
Connected(r, inside, index, next_pc, next_layer) ==
  IF r.raises
  THEN /\ Raise("ZeroDivisionError")
       /\ UNCHANGED <<arcs, lines, bridges, layer>>
  ELSE /\ arcs' = arcs \o r.arcs
       /\ lines' = lines \o r.lines
       /\ bridges' = Append(bridges,
                            bridge_record(r, wrap_clockwise, inside, index, arcs, lines))
       /\ pc' = next_pc
       /\ layer' = next_layer
       /\ UNCHANGED <<error, output>>

\* one call of connect_via from generate_coil_spiral towards arc_connectors[index];
\* layer_names[layer] and arc_connectors[index] raise IndexError
Connect(inside, index, next_pc, next_layer) ==
  IF missing_layer_name \/ index >= Len(arc_connectors)
  THEN /\ Raise("IndexError")
       /\ UNCHANGED <<arcs, lines, bridges, layer>>
  ELSE Connected(via_bridge(wrap_clockwise, inside, index), inside, index,
                 next_pc, next_layer)

\* mutant: line 150 passes arc_connectors[layer]
ConnectFirst_same_index ==
  /\ pc = "spiral_turn"
  /\ turn >= turns_per_layer
  /\ IF connects_first
     THEN Connect(first_via_inside, layer, "connect_second", layer)
     ELSE /\ pc' = "connect_second"
          /\ UNCHANGED <<arcs, lines, bridges, layer, error, output>>
  /\ UNCHANGED <<args, v, vias, arc_connectors, turn, current_radius, pads>>

\* lines 141-150: the turns loop is over; the first via of the layer
ConnectFirst ==
  /\ pc = "spiral_turn"
  /\ turn >= turns_per_layer
  /\ IF connects_first
     THEN Connect(first_via_inside, layer - 1, "connect_second", layer)
     ELSE /\ pc' = "connect_second"
          /\ UNCHANGED <<arcs, lines, bridges, layer, error, output>>
  /\ UNCHANGED <<args, v, vias, arc_connectors, turn, current_radius, pads>>

\* lines 152-160: the second via of the layer, then the next layer
ConnectSecond ==
  /\ pc = "connect_second"
  /\ IF connects_second
     THEN Connect(second_via_inside, layer, "spiral_layer", layer + 1)
     ELSE /\ pc' = "spiral_layer"
          /\ layer' = layer + 1
          /\ UNCHANGED <<arcs, lines, bridges, error, output>>
  /\ UNCHANGED <<args, v, vias, arc_connectors, turn, current_radius, pads>>

\* line 162: return (arcs, lines, current_radius)
SpiralReturn ==
  /\ pc = "spiral_layer"
  /\ layer >= layer_count
  /\ IF current_radius = UNBOUND
     THEN Raise("UnboundLocalError")
     ELSE /\ pc' = "generate_pads"
          /\ UNCHANGED <<error, output>>
  /\ UNCHANGED <<args, v, vias, arc_connectors, layer, turn, current_radius, arcs, lines,
                 pads, bridges>>

\* ------------------------------------------------------------ generate_pads
\* lines 263-264; outer_radius is last_used_radius, the returned current_radius
pad_center_point(sign) ==
  P2D(current_radius + BREAKOUT_LEN + 4 * trace_width,
      (BREAKOUT_LEN + via_diameter \div 2 + trace_width) * sign)

\* lines 267-283, 287-303: the two breakout lines towards the pad centred at
\* center, on layer_name
breakout(center, layer_name) ==
  << Whole(line(P2D(current_radius, 0), P2D(current_radius, center.y), trace_width,
                layer_name), "pad"),
     Whole(line(P2D(current_radius, center.y), P2D(center.x - 3 * trace_width, center.y),
                trace_width, layer_name), "pad") >>

\* mutant: lines 286 and 320 without the parity test
has_bottom_pad_any_parity == layer_count > 1

\* lines 286, 320
has_bottom_pad == layer_count > 1 /\ layer_count % 2 = 0

\* lines 266-303: what generate_pads appends to lines
pad_lines(clockwise) ==
  breakout(pad_center_point(-wrap_direction_multiplier(clockwise)), layer_names[1])
  \o (IF has_bottom_pad
      THEN breakout(pad_center_point(wrap_direction_multiplier(clockwise)),
                    layer_names[layer_count])
      ELSE << >>)

\* lines 310-329: the pads list
pad_list(clockwise) ==
  <<Whole(pad(1, pad_center_point(-wrap_direction_multiplier(clockwise)),
              8 * trace_width, trace_width, layer_names[1]), "pad")>>
  \o (IF has_bottom_pad
      THEN <<Whole(pad(2, pad_center_point(wrap_direction_multiplier(clockwise)),
                       8 * trace_width, trace_width, layer_names[layer_count]), "pad")>>
      ELSE << >>)

\* line 67 and generate_pads; layer_names[0] and layer_names[layer_count - 1]
\* raise IndexError
GeneratePads ==
  /\ pc = "generate_pads"
  /\ IF Len(layer_names) = 0 \/ layer_count - 1 >= Len(layer_names)
     THEN /\ Raise("IndexError")
          /\ UNCHANGED <<lines, pads>>
     ELSE /\ lines' = lines \o pad_lines(wrap_clockwise)
          /\ pads' = pad_list(wrap_clockwise)
          /\ pc' = "format"
          /\ UNCHANGED <<error, output>>
  /\ UNCHANGED <<args, v, vias, arc_connectors, layer, turn, current_radius, arcs,
                 bridges>>

\* ''.join(list): the entities of the list, in order
Join(list) == [i \in 1..Len(list) |-> list[i].e]

\* lines 69-80: the substituted template is returned
Return ==
  /\ pc = "format"
  /\ output' = [returned |-> TRUE, LINES |-> Join(lines), ARCS |-> Join(arcs),
                VIAS |-> Join(vias), PADS |-> Join(pads)]
  /\ pc' = "done"
  /\ UNCHANGED <<args, v, vias, arc_connectors, layer, turn, current_radius, arcs, lines,
                 pads, bridges, error>>

\* ------------------------------------------------------------ specification
\* one call of generate
Next ==
  \/ PlanVias /\ UNCHANGED <<mirror, call, ret, layout>>
  \/ PlaceVia /\ UNCHANGED <<mirror, call, ret, layout>>
  \/ EndVias /\ UNCHANGED <<mirror, call, ret, layout>>
  \/ BeginLayer /\ UNCHANGED <<mirror, call, ret, layout>>
  \/ SpiralTurn /\ UNCHANGED <<mirror, call, ret, layout>>
  \/ ConnectFirst /\ UNCHANGED <<mirror, call, ret, layout>>
  \/ ConnectSecond /\ UNCHANGED <<mirror, call, ret, layout>>
  \/ SpiralReturn /\ UNCHANGED <<mirror, call, ret, layout>>
  \/ GeneratePads /\ UNCHANGED <<mirror, call, ret, layout>>
  \/ Return /\ UNCHANGED <<mirror, call, ret, layout>>

Spec == Init /\ [][Next]_vars

\* generate called with a degenerate dimension set
InitDegenerate ==
  /\ layer_count \in (-MinCount)..MaxLayers
  /\ wrap_clockwise \in BOOLEAN
  /\ turns_per_layer \in (-MinCount)..MaxTurns
  /\ dim \in DegenerateDimensions
  /\ \E n \in 0..MaxLayers : layer_names = SubSeq(BoardLayers, 1, n)
  /\ Called
  /\ call = NoCall
  /\ ret = NoCall
  /\ NotRun

SpecDegenerate == InitDegenerate /\ [][Next]_vars

\* ---- the same call with wrap_clockwise flipped, run side by side: every step
\* of generate appends to mirror what it appends for ~wrap_clockwise
MirrorVia == mirror' = [mirror EXCEPT !.vias = Append(@, vias'[v + 1])]

MirrorTurn ==
  mirror' = IF pc' = "error" THEN mirror
            ELSE [mirror EXCEPT !.arcs = @ \o turn_arcs(~wrap_clockwise)]

MirrorConnected(r, inside, index) ==
  mirror' = IF r.raises THEN [mirror EXCEPT !.raised = TRUE]
            ELSE [mirror EXCEPT
                    !.arcs = @ \o r.arcs,
                    !.lines = @ \o r.lines,
                    !.bridges = Append(@, bridge_record(r, ~wrap_clockwise, inside, index,
                                                        mirror.arcs, mirror.lines))]

MirrorConnect(connects, inside, index) ==
  IF connects /\ pc' # "error"
  THEN MirrorConnected(via_bridge(~wrap_clockwise, inside, index), inside, index)
  ELSE mirror' = mirror

MirrorPads ==
  mirror' = IF pc' = "error" THEN mirror
            ELSE [mirror EXCEPT !.lines = @ \o pad_lines(~wrap_clockwise),
                                !.pads = pad_list(~wrap_clockwise)]

NextPair ==
  \/ PlanVias /\ UNCHANGED <<mirror, call, ret, layout>>
  \/ PlaceVia /\ MirrorVia /\ UNCHANGED <<call, ret, layout>>
  \/ EndVias /\ UNCHANGED <<mirror, call, ret, layout>>
  \/ BeginLayer /\ UNCHANGED <<mirror, call, ret, layout>>
  \/ SpiralTurn /\ MirrorTurn /\ UNCHANGED <<call, ret, layout>>
  \/ ConnectFirst /\ MirrorConnect(connects_first, first_via_inside, layer - 1)
       /\ UNCHANGED <<call, ret, layout>>
  \/ ConnectSecond /\ MirrorConnect(connects_second, second_via_inside, layer)
       /\ UNCHANGED <<call, ret, layout>>
  \/ SpiralReturn /\ UNCHANGED <<mirror, call, ret, layout>>
  \/ GeneratePads /\ MirrorPads /\ UNCHANGED <<call, ret, layout>>
  \/ Return /\ UNCHANGED <<mirror, call, ret, layout>>

SpecPair == Init /\ [][NextPair]_vars

\* ---- the geometry primitives, called on their own
\* the points with coordinates of whole millimetres, the origin left out
Points ==
  {P2D(x * UNIT, y * UNIT) : x, y \in (-MaxCoord)..MaxCoord} \ {P2D(0, 0)}

\* radii in steps of half a millimetre
Radii == {r * (UNIT \div 2) : r \in 1..MaxRadius}

Calls ==
  {[fn |-> "get_angle_degree_between", point_a |-> a, point_b |-> b] : a, b \in Points}
  \cup {[fn |-> "get_point_on_circle", angle_deg |-> t, radius |-> r] :
          t \in (-179)..180, r \in Radii}

\* no call of generate is under way
Idle ==
  /\ layer_count = 1
  /\ wrap_clockwise = TRUE
  /\ turns_per_layer = 1
  /\ dim \in Dimensions /\ dim.trace_width = 127
  /\ layer_names = SubSeq(BoardLayers, 1, 1)
  /\ Called

InitGeometry ==
  /\ Idle
  /\ call \in Calls
  /\ ret = NoCall
  /\ NotRun

\* get_angle_degree_between(point_a, point_b, True) and (..., False)
AngleBetween ==
  /\ call.fn = "get_angle_degree_between"
  /\ ret = NoCall
  /\ ret' = [fn |-> call.fn,
             clockwise |-> get_angle_degree_between(call.point_a, call.point_b, TRUE),
             counter |-> get_angle_degree_between(call.point_a, call.point_b, FALSE)]
  /\ UNCHANGED call

\* get_point_on_circle(angle_deg, radius)
PointOnCircle ==
  /\ call.fn = "get_point_on_circle"
  /\ ret = NoCall
  /\ ret' = [fn |-> call.fn, point |-> get_point_on_circle(call.angle_deg, call.radius)]
  /\ UNCHANGED call

\* get_angle_degree_of_point of the point get_point_on_circle returned
AngleOfPoint ==
  /\ ret.fn = "get_point_on_circle"
  /\ ret' = [fn |-> "get_angle_degree_of_point", point |-> ret.point,
             angle |-> get_angle_degree_of_point(ret.point)]
  /\ UNCHANGED call

NextGeometry ==
  \/ AngleBetween /\ UNCHANGED <<coil, mirror, layout>>
  \/ PointOnCircle /\ UNCHANGED <<coil, mirror, layout>>
  \/ AngleOfPoint /\ UNCHANGED <<coil, mirror, layout>>

SpecGeometry == InitGeometry /\ [][NextGeometry]_vars

\* ---------------------------------------------------------------- plugin.py
\* the references the footprints of the board carry
References == {"R2", "R10"}

\* what the dialog can hold when OK is pressed: whether the diameter, centre and
\* start angle parse as floats, the outward face (4 is "Custom..."), whether the
\* custom angle parses, the direction and the rotate box
Entries ==
  [numbers : BOOLEAN, orientation_index : {1, 4}, custom_angle : BOOLEAN,
   direction_index : {0, 1}, rotate : BOOLEAN]

\* the defaults of the dialog's start angle and the custom angle typed, degrees
START_ANGLE == 90
CUSTOM_ANGLE == 45

Range(list) == {list[k] : k \in 1..Len(list)}

\* natural_sort_key: the lower-cased text between the digit runs and the digit
\* runs as integers
natural_sort_key(s) ==
  CASE s = "R2" -> <<"r", 2, "">>
    [] s = "R10" -> <<"r", 10, "">>

\* Python's < on two such keys with the same letters
KeyLess(a, b) == a[1] = b[1] /\ a[2] < b[2]

\* the orders of the positions 1..n
Orders(n) == {p \in [1..n -> 1..n] : \A a, b \in 1..n : a # b => p[a] # p[b]}

\* the rearrangements of a list
Rearranged(list) == {[k \in 1..Len(list) |-> list[p[k]]] : p \in Orders(Len(list))}

\* sorted(current_refs, key=natural_sort_key)
sorted_refs(current_refs) ==
  CHOOSE r \in Rearranged(current_refs) :
    \A a, b \in 1..Len(r) :
      a < b => ~KeyLess(natural_sort_key(r[b]), natural_sort_key(r[a]))

\* footprints.sort(key=...): stable, equal references keep their selection order
sorted_footprints ==
  CHOOSE p \in Orders(Len(footprints)) :
    \A a, b \in 1..Len(footprints) :
      a < b => \/ KeyLess(natural_sort_key(footprints[p[a]]),
                          natural_sort_key(footprints[p[b]]))
               \/ footprints[p[a]] = footprints[p[b]] /\ p[a] < p[b]

\* lines 261-273: custom_order after load_settings
load_settings(settings_order, current_refs) ==
  IF settings_order # << >> /\ Range(settings_order) # Range(current_refs)
  THEN sorted_refs(current_refs)
  ELSE IF settings_order = << >> /\ current_refs # << >>
       THEN sorted_refs(current_refs)
       ELSE settings_order

\* line 384: a dict comprehension, the last footprint of a reference stays
footprint_dict ==
  [ref \in Range(footprints) |->
     CHOOSE k \in 1..Len(footprints) :
       /\ footprints[k] = ref
       /\ \A m \in 1..Len(footprints) : footprints[m] = ref => m <= k]

\* line 387
applies_custom_order(order) == order # << >> /\ Range(order) = Range(footprints)

\* lines 387-394: the list the loop runs over
arranged(order) ==
  IF applies_custom_order(order)
  THEN [k \in 1..Len(order) |-> footprint_dict[order[k]]]
  ELSE sorted_footprints

\* lines 376-379, in degrees
angle_step == IF entries.direction_index = 0 THEN -(360 \div Len(footprints))
              ELSE 360 \div Len(footprints)

\* lines 355-365
rotation_offset_degrees ==
  IF entries.orientation_index = 4 THEN CUSTOM_ANGLE
  ELSE <<180, 90, 0, -90>>[entries.orientation_index + 1]

\* Run is called with a selection on the board and a settings file
InitPlugin ==
  /\ Idle
  /\ mirror = NoMirror
  /\ call = NoCall
  /\ ret = NoCall
  /\ footprints \in UNION {[1..n -> References] : n \in 0..MaxFootprints}
  /\ saved_order \in UNION {[1..n -> References] : n \in 0..MaxSaved}
  /\ entries \in Entries
  /\ custom_order = << >>
  /\ rpc = "Run"
  /\ ordered = << >>
  /\ slot = 0
  /\ moves = [k \in 1..Len(footprints) |-> << >>]

\* lines 311-317: fewer than two footprints are selected
TooFew ==
  /\ rpc = "Run"
  /\ Len(footprints) < 2
  /\ rpc' = "returned"
  /\ UNCHANGED <<footprints, saved_order, entries, custom_order, ordered, slot, moves>>

\* lines 319-337: the dialog is built, which loads the settings, and shown
ShowModal ==
  /\ rpc = "Run"
  /\ Len(footprints) >= 2
  /\ custom_order' = load_settings(saved_order, footprints)
  /\ rpc' = "dialog"
  /\ UNCHANGED <<footprints, saved_order, entries, ordered, slot, moves>>

\* on_set_order closed with OK: the list box holds the references moved up and down
SetOrder ==
  /\ rpc = "dialog"
  /\ custom_order' \in Rearranged(custom_order)
  /\ UNCHANGED <<footprints, saved_order, entries, rpc, ordered, slot, moves>>

\* lines 338-339: the dialog is cancelled
Cancel ==
  /\ rpc = "dialog"
  /\ rpc' = "returned"
  /\ UNCHANGED <<footprints, saved_order, entries, custom_order, ordered, slot, moves>>

\* lines 341-394: OK; the settings are saved, the numbers parsed and the
\* footprints put in order
Ok ==
  /\ rpc = "dialog"
  /\ saved_order' = custom_order
  /\ IF ~entries.numbers \/ (entries.orientation_index = 4 /\ ~entries.custom_angle)
     THEN /\ rpc' = "returned"
          /\ UNCHANGED ordered
     ELSE /\ rpc' = "placing"
          /\ ordered' = arranged(custom_order)
  /\ slot' = 0
  /\ UNCHANGED <<footprints, entries, custom_order, moves>>

\* lines 397-407: one pass of the loop
Place ==
  /\ rpc = "placing"
  /\ slot < Len(ordered)
  /\ moves' = [moves EXCEPT ![ordered[slot + 1]] =
                 Append(@, [slot |-> slot,
                            angle |-> START_ANGLE + slot * angle_step,
                            rotated |-> entries.rotate,
                            orientation |-> IF entries.rotate
                                            THEN START_ANGLE + slot * angle_step
                                                 + rotation_offset_degrees
                                            ELSE 0])]
  /\ slot' = slot + 1
  /\ UNCHANGED <<footprints, saved_order, entries, custom_order, rpc, ordered>>

\* line 410
Refresh ==
  /\ rpc = "placing"
  /\ slot = Len(ordered)
  /\ rpc' = "done"
  /\ UNCHANGED <<footprints, saved_order, entries, custom_order, ordered, slot, moves>>

NextPlugin ==
  \/ TooFew /\ UNCHANGED <<coil, mirror, call, ret>>
  \/ ShowModal /\ UNCHANGED <<coil, mirror, call, ret>>
  \/ SetOrder /\ UNCHANGED <<coil, mirror, call, ret>>
  \/ Cancel /\ UNCHANGED <<coil, mirror, call, ret>>
  \/ Ok /\ UNCHANGED <<coil, mirror, call, ret>>
  \/ Place /\ UNCHANGED <<coil, mirror, call, ret>>
  \/ Refresh /\ UNCHANGED <<coil, mirror, call, ret>>

SpecPlugin == InitPlugin /\ [][NextPlugin]_vars

\* ------------------------------------------------------------------ claims
\* generate_vias has returned
ViasReturned == pc \notin {"generate_vias", "place_vias"}

\* generate_coil_spiral has returned
SpiralReturned == pc \in {"generate_pads", "format", "done"}

\* generate_pads has returned
PadsReturned == pc \in {"format", "done"}

\* C1: for every layer_count >= 1, generate_vias returns insideCount +
\* outsideCount vias and as many connectors with the same indexing, where
\* effectiveVias = L - (1 if L even else 0), insideCount = effectiveVias div 2
\* + 1, outsideCount = insideCount - 1: L vias for odd L, L - 1 for even L.
C1_ViaCount ==
  (layer_count >= 1 /\ ViasReturned) =>
    LET effectiveVias == layer_count - (IF layer_count % 2 = 0 THEN 1 ELSE 0)
        insideCount == effectiveVias \div 2 + 1
        outsideCount == insideCount - 1
    IN /\ Len(vias) = insideCount + outsideCount
       /\ Len(arc_connectors) = Len(vias)
       /\ \A i \in 1..Len(vias) :
            /\ vias[i].n = 1
            /\ vias[i].e.at = P2D(arc_connectors[i].x, arc_connectors[i].y)
       /\ Len(vias) = IF layer_count % 2 = 1 THEN layer_count ELSE layer_count - 1

C1_Witness == pc = "done" /\ layer_count = 4 /\ Len(vias) = 3 /\ Len(arc_connectors) = 3

\* C2: for every layer_count >= 1, exactly one via carries pad number 2 when
\* layer_count is odd and none when it is even; the tagged via is the last of
\* the list and every other via carries the default pad number 0.
C2_PadTwoVia ==
  (layer_count >= 1 /\ ViasReturned) =>
    /\ Cardinality({i \in 1..Len(vias) : vias[i].e.padnum = 2})
         = IF layer_count % 2 = 1 THEN 1 ELSE 0
    /\ layer_count % 2 = 1 => vias[Len(vias)].e.padnum = 2
    /\ \A i \in 1..Len(vias) :
         (i # Len(vias) \/ layer_count % 2 = 0) => vias[i].e.padnum = 0

C2_Witness ==
  /\ pc = "done" /\ layer_count = 3
  /\ vias[3].e.padnum = 2 /\ vias[1].e.padnum = 0 /\ vias[2].e.padnum = 0

\* the lines generate_pads appended
BreakoutLines == SelectSeq(lines, LAMBDA l : l.by = "pad")

\* C3: for every layer_count >= 1, generate_pads emits pad 1 on layer_names[0]
\* with exactly two breakout lines, and pad 2 on layer_names[L-1] with two
\* further breakout lines iff L > 1 and L is even: one pad for odd L, two for
\* even L.
C3_PadCount ==
  (layer_count >= 1 /\ PadsReturned) =>
    /\ pads[1].e.pid = 1
    /\ pads[1].e.layer = layer_names[1]
    /\ Len(BreakoutLines) >= 2
    /\ BreakoutLines[1].e.layer = layer_names[1]
    /\ BreakoutLines[2].e.layer = layer_names[1]
    /\ Len(pads) = IF layer_count % 2 = 1 THEN 1 ELSE 2
    /\ IF layer_count > 1 /\ layer_count % 2 = 0
       THEN /\ pads[2].e.pid = 2
            /\ pads[2].e.layer = layer_names[layer_count]
            /\ Len(BreakoutLines) = 4
            /\ BreakoutLines[3].e.layer = layer_names[layer_count]
            /\ BreakoutLines[4].e.layer = layer_names[layer_count]
       ELSE /\ Len(pads) = 1
            /\ Len(BreakoutLines) = 2

C3_Witness ==
  /\ pc = "done" /\ layer_count = 4 /\ Len(pads) = 2
  /\ pads[2].e.layer = "In3.Cu" /\ Len(BreakoutLines) = 4

\* the layers on which connect_via was called
BridgedLayers == {bridges[j].layer : j \in 1..Len(bridges)}

\* C4, as claimed (Scenario B): layer_count = 2 gives insideCount = 2 and
\* outsideCount = 1, hence 3 vias, 2 pads, and the bridge connector is invoked
\* for at least one via on each of the two layers.
C4_ScenarioB_Claimed ==
  (layer_count = 2 /\ pc = "done") =>
    /\ get_num_vias(layer_count).inside = 2
    /\ get_num_vias(layer_count).outside = 1
    /\ Len(vias) = 3
    /\ Len(pads) = 2
    /\ {0, 1} \subseteq BridgedLayers

\* C4, amended: layer_count = 2 gives insideCount = 1 and outsideCount = 0,
\* hence 1 via, 2 pads, and the bridge connector is invoked for the one via
\* (index 0) exactly once on each of the two layers.
C4_ScenarioB ==
  (layer_count = 2 /\ pc = "done") =>
    /\ get_num_vias(layer_count).inside = 1
    /\ get_num_vias(layer_count).outside = 0
    /\ Len(vias) = 1
    /\ Len(pads) = 2
    /\ Len(bridges) = 2
    /\ bridges[1].layer = 0 /\ bridges[1].index = 0
    /\ bridges[2].layer = 1 /\ bridges[2].index = 0

C4_Witness ==
  /\ layer_count = 2 /\ pc = "done" /\ turns_per_layer = 2
  /\ Len(vias) = 1 /\ Len(pads) = 2 /\ BridgedLayers = {0, 1}

\* the point an arc was drawn from and to (generator.arc writes them swapped
\* when the flag is set)
ArcFrom(e) == IF e.swap THEN e.end ELSE e.start
ArcTo(e) == IF e.swap THEN e.start ELSE e.end

\* the arcs the turns loop appended
LoopArcs == SelectSeq(arcs, LAMBDA a : a.by = "loop")

\* C5: for all L >= 1 and T >= 1 the turns loops emit 2 * T * L arcs: layer i
\* contributes 2T arcs on layer_names[i], two per turn, turn k starting at
\* radius D/2 - T*w - (T-1)*s + k*(w+s), the same on every layer.
C5_SpiralArcs ==
  (layer_count >= 1 /\ turns_per_layer >= 1 /\ SpiralReturned) =>
    /\ Len(LoopArcs) = 2 * turns_per_layer * layer_count
    /\ \A i \in 0..(layer_count - 1) : \A k \in 0..(turns_per_layer - 1) :
         LET radius == outer_diameter \div 2 - turns_per_layer * trace_width
                       - (turns_per_layer - 1) * trace_spacing
                       + k * (trace_width + trace_spacing)
             one == LoopArcs[2 * turns_per_layer * i + 2 * k + 1]
             two == LoopArcs[2 * turns_per_layer * i + 2 * k + 2]
         IN /\ one.n = 1 /\ two.n = 1
            /\ one.e.layer = layer_names[i + 1]
            /\ two.e.layer = layer_names[i + 1]
            /\ ArcFrom(one.e) = P2D(radius, 0)
            /\ ArcTo(one.e) = P2D(-radius, 0)
            /\ ArcFrom(two.e) = P2D(-radius, 0)
            /\ ArcTo(two.e) = P2D(radius + trace_width + trace_spacing, 0)

C5_Witness ==
  /\ pc = "done" /\ layer_count = 3 /\ turns_per_layer = 2
  /\ Len(LoopArcs) = 12 /\ Len(arcs) > 12

\* the point the first entity of bridge call b starts from, and its layer
BridgeFirst(b) ==
  IF b.half \/ b.partial THEN arcs[b.arcs_at + 1].e ELSE lines[b.lines_at + 1].e
BridgeStart(b) ==
  IF b.half \/ b.partial THEN ArcFrom(BridgeFirst(b)) ELSE BridgeFirst(b).start

\* the number of terminations (bridges and pad breakouts) that start at
\* point on layer_name
Terminations(layer_name, point) ==
  Cardinality({j \in 1..Len(bridges) :
                 /\ BridgeFirst(bridges[j]).layer = layer_name
                 /\ BridgeStart(bridges[j]) = point})
  + Cardinality({j \in 1..Len(lines) :
                   /\ lines[j].by = "pad"
                   /\ lines[j].e.layer = layer_name
                   /\ lines[j].e.start = point})

\* C6: for all L >= 1 (and T >= 1) and every layer i, the inner spiral end
\* (startRadius, 0) and the outer spiral end (startRadius + T*(w+s), 0) are
\* each the start of exactly one termination on that layer's name, a via
\* bridge or a pad breakout line.
C6_EndsTerminatedOnce ==
  (layer_count >= 1 /\ turns_per_layer >= 1 /\ PadsReturned) =>
    LET startRadius == outer_diameter \div 2 - turns_per_layer * trace_width
                       - (turns_per_layer - 1) * trace_spacing
        endRadius == startRadius + turns_per_layer * (trace_width + trace_spacing)
    IN \A i \in 0..(layer_count - 1) :
         /\ Terminations(layer_names[i + 1], P2D(startRadius, 0)) = 1
         /\ Terminations(layer_names[i + 1], P2D(endRadius, 0)) = 1

C6_Witness ==
  /\ pc = "done" /\ layer_count = 5 /\ turns_per_layer = 2
  /\ Len(bridges) = 9
  /\ \E j \in 1..Len(bridges) : bridges[j].half /\ bridges[j].partial
  /\ Terminations(layer_names[1], P2D(current_radius, 0)) = 1

\* the arcs bridge call b appended to the list all
BridgeArcs(all, b) ==
  SubSeq(all, b.arcs_at + 1,
         b.arcs_at + (IF b.half THEN 1 ELSE 0) + (IF b.partial THEN 1 ELSE 0))

\* the arcs the turns loop appended in the flipped call
MirrorLoopArcs == SelectSeq(mirror.arcs, LAMBDA a : a.by = "loop")

\* arc a and arc b have opposite swap flags and opposite perpendicular (y)
\* midpoint offsets
Flipped(a, b) == a.e.swap = ~b.e.swap /\ a.e.mid.y = -b.e.mid.y

\* C7, as claimed: with the other parameters fixed, the calls with
\* wrap_clockwise true and false yield the same via and pad counts, and their
\* arcs correspond one to one, each with the swap flag inverted and the sign of
\* the perpendicular midpoint offset inverted.
C7_Direction_Claimed ==
  (pc = "done" /\ turns_per_layer >= 1) =>
    /\ Len(mirror.vias) = Len(vias)
    /\ Len(mirror.pads) = Len(pads)
    /\ Len(mirror.arcs) = Len(arcs)
    /\ \A i \in 1..Len(arcs) : i <= Len(mirror.arcs) => Flipped(arcs[i], mirror.arcs[i])

\* C7, amended: the two calls yield the same via count, pad count and bridge
\* calls; the arcs of the turns loops correspond one to one with the swap flag
\* and the sign of the midpoint offset inverted; the arcs of a bridge carry the
\* inverted swap flag in the other call, and a half circle both calls draw has
\* its midpoint offset inverted. (The arcs of a bridge do not correspond: their
\* number depends on the direction.)
C7_Direction ==
  pc = "done" =>
    /\ Len(mirror.vias) = Len(vias)
    /\ Len(mirror.pads) = Len(pads)
    /\ Len(MirrorLoopArcs) = Len(LoopArcs)
    /\ \A i \in 1..Len(LoopArcs) :
         /\ Flipped(LoopArcs[i], MirrorLoopArcs[i])
         /\ ArcFrom(LoopArcs[i].e) = ArcFrom(MirrorLoopArcs[i].e)
         /\ ArcTo(LoopArcs[i].e) = ArcTo(MirrorLoopArcs[i].e)
    /\ Len(mirror.bridges) = Len(bridges)
    /\ \A j \in 1..Len(bridges) :
         LET here == BridgeArcs(arcs, bridges[j])
             there == BridgeArcs(mirror.arcs, mirror.bridges[j])
         IN /\ mirror.bridges[j].layer = bridges[j].layer
            /\ mirror.bridges[j].index = bridges[j].index
            /\ \A m \in 1..Len(here) : \A n \in 1..Len(there) :
                 here[m].e.swap = ~there[n].e.swap
            /\ (bridges[j].half /\ mirror.bridges[j].half) => Flipped(here[1], there[1])

C7_Witness ==
  /\ pc = "done" /\ layer_count = 5 /\ turns_per_layer = 2
  /\ Len(mirror.arcs) # Len(arcs)
  /\ \E j \in 1..Len(bridges) : bridges[j].half /\ mirror.bridges[j].half
  /\ \E j \in 1..Len(bridges) : bridges[j].half /\ ~mirror.bridges[j].half

\* C8: for all points a and b other than the origin,
\* get_angle_degree_between(a, b, True) and (a, b, False) lie in [0, 360) and
\* their sum is congruent to 0 modulo 360; the angle from a to a is 0 (an exact
\* 360 is collapsed to 0).
C8_AngleBetween ==
  ret.fn = "get_angle_degree_between" =>
    /\ ret.clockwise >= 0 /\ ret.clockwise < 360
    /\ ret.counter >= 0 /\ ret.counter < 360
    /\ (ret.clockwise + ret.counter) % 360 = 0
    /\ call.point_a = call.point_b => (ret.clockwise = 0 /\ ret.counter = 0)

C8_Witness ==
  /\ ret.fn = "get_angle_degree_between"
  /\ call.point_a = P2D(UNIT, 0) /\ call.point_b = P2D(-UNIT, -UNIT)
  /\ ret.clockwise = 225 /\ ret.counter = 135

\* C9: get_point_on_circle is the inverse of get_angle_degree_of_point under
\* the atan2(x, y) convention: for every radius > 0 and angle t in (-180, 180]
\* the angle of get_point_on_circle(t, r) is t; angle 0 is the point (0, r) on
\* the +y axis and angle 90 the point (r, 0) on the +x axis.
C9_PointOnCircleInverse ==
  /\ ret.fn = "get_angle_degree_of_point" => ret.angle = call.angle_deg
  /\ ret.fn = "get_point_on_circle" =>
       /\ call.angle_deg = 0 => ret.point = P2D(0, call.radius)
       /\ call.angle_deg = 90 => ret.point = P2D(call.radius, 0)

C9_Witness ==
  /\ ret.fn = "get_angle_degree_of_point"
  /\ call.angle_deg = -120 /\ ret.angle = -120
  /\ ret.point.x < 0 /\ ret.point.y < 0

NameMissing ==
  Len(layer_names) < layer_count /\ layer_count >= 1 /\ turns_per_layer >= 1

\* C10: if len(layer_names) < layer_count (layer_count >= 1, turns_per_layer
\* >= 1), generate never reaches its return: the only exception it can end
\* with is IndexError, raised at the first access of the missing layer name
\* (the first turn of layer len(layer_names)), and nothing is returned.
C10_MissingLayerName ==
  NameMissing =>
    /\ output = NoOutput
    /\ pc \notin {"generate_pads", "format", "done"}
    /\ layer <= Len(layer_names)
    /\ (pc \in {"spiral_turn", "connect_second"} /\ layer = Len(layer_names)) =>
         pc = "spiral_turn" /\ turn = 0
    /\ pc = "error" =>
         /\ error = "IndexError"
         /\ layer = Len(layer_names)
         /\ turn = 0
         /\ \A i \in 1..Len(arcs) : arcs[i].e.layer \in {layer_names[j] : j \in 1..Len(layer_names)}

C10_Witness ==
  /\ pc = "error" /\ error = "IndexError" /\ output = NoOutput
  /\ layer_count = 3 /\ Len(layer_names) = 2 /\ layer = 2
  /\ Len(arcs) > 0 /\ Len(vias) = 3

\* C11 as claimed: for layer_count <= 0 or turns_per_layer <= 0 generate never
\* returns a serialized coil.
C11_NonPositiveCount_Claimed ==
  (layer_count <= 0 \/ turns_per_layer <= 0) => (pc # "done" /\ output = NoOutput)

\* C11, amended: for layer_count <= 0 generate never returns a serialized
\* coil, and the exception is not an index error: ZeroDivisionError in
\* generate_vias (before any via is placed) for layer_count 0 and -1,
\* UnboundLocalError at the return of generate_coil_spiral for layer_count
\* <= -2.  turns_per_layer <= 0 is no misuse site: the turns loop is skipped,
\* no turn arc is made, and no exception comes from it.
C11_NonPositiveCount ==
  /\ layer_count <= 0 =>
       /\ output = NoOutput
       /\ pc \in {"generate_vias", "place_vias", "spiral_layer", "error"}
       /\ vias = << >> /\ arcs = << >> /\ lines = << >> /\ pads = << >>
       /\ pc = "error" =>
            error = IF layer_count >= -1 THEN "ZeroDivisionError" ELSE "UnboundLocalError"
       /\ (pc = "error" /\ layer_count >= -1) => (v = 0 /\ arc_connectors = << >>)
  /\ turns_per_layer <= 0 =>
       /\ turn = 0
       /\ \A i \in 1..Len(arcs) : arcs[i].by # "loop"
       /\ (pc = "error" /\ error = "IndexError") =>
            (Len(layer_names) < layer_count /\ layer = Len(layer_names))

C11_Witness ==
  /\ pc = "error" /\ error = "ZeroDivisionError" /\ output = NoOutput
  /\ layer_count = 0 /\ turns_per_layer = 1 /\ Len(layer_names) = 1

\* the inner via ring has radius 0 (the inside vias lie at the origin) or the
\* bridge from the inner spiral end has target radius 0
DegenerateInside ==
  \/ get_via_radius(outer_diameter, turns_per_layer, trace_width, trace_spacing,
                    via_diameter).inside = 0
  \/ start_radius - increment = 0

\* C12 as claimed: degenerate geometry never raises an error and generation
\* completes.
C12_Degenerate_Claimed ==
  (DegenerateInside /\ layer_count >= 1 /\ Len(layer_names) >= layer_count) =>
    pc # "error"

\* C12, amended: when the target radius of a bridge is 0 or its via lies at the
\* origin, get_point_radius_reduced divides by zero: connect_via raises
\* ZeroDivisionError at its first projection, before it appends anything;
\* generate ends with that exception at the first inside bridge (layer 0) and
\* returns nothing.
C12_Degenerate ==
  (DegenerateInside /\ layer_count >= 1 /\ Len(layer_names) >= 1) =>
    /\ output = NoOutput
    /\ pc \notin {"generate_pads", "format", "done"}
    /\ layer = 0
    /\ bridges = << >> /\ lines = << >>
    /\ \A i \in 1..Len(arcs) : arcs[i].by = "loop"
    /\ pc = "error" =>
         /\ error = "ZeroDivisionError"
         /\ turn = IF turns_per_layer > 0 THEN turns_per_layer ELSE 0
         /\ RadiusReducedRaises(P2D(arc_connectors[1].x, arc_connectors[1].y),
                                start_radius - increment)

C12_Witness ==
  /\ pc = "error" /\ error = "ZeroDivisionError" /\ output = NoOutput
  /\ layer_count = 3 /\ turns_per_layer = 1 /\ Len(arcs) = 2
  /\ arc_connectors[1].x = 0 /\ arc_connectors[1].y = 0

\* the ring of via number n and its place on the ring, as planned
RingRadius(n) ==
  IF n % 2 = 0
  THEN get_via_radius(outer_diameter, turns_per_layer, trace_width, trace_spacing,
                      via_diameter).inside
  ELSE get_via_radius(outer_diameter, turns_per_layer, trace_width, trace_spacing,
                      via_diameter).outside

RingCount(n) ==
  IF n % 2 = 0 THEN get_num_vias(layer_count).inside ELSE get_num_vias(layer_count).outside

RingAngle(n) == (n \div 2) * (360 \div RingCount(n))

\* two points agree to the micrometre
Near(p, q) == Abs(p.x - q.x) <= 1 /\ Abs(p.y - q.y) <= 1

\* C13 as claimed: via v is on the inside ring for even v and on the outside
\* ring for odd v, at get_point_on_circle(k * 360/ringCount, ringRadius) with
\* k = v div 2; via 0 lies at (0, innerRadius) and the stored angle is
\* get_angle_degree_of_point of the position.
C13_ViaPlacement_Claimed ==
  (layer_count >= 1 /\ ViasReturned) =>
    \A i \in 1..Len(arc_connectors) :
      /\ Near(P2D(arc_connectors[i].x, arc_connectors[i].y),
              get_point_on_circle(RingAngle(i - 1), RingRadius(i - 1)))
      /\ i = 1 => P2D(arc_connectors[i].x, arc_connectors[i].y) = P2D(0, RingRadius(0))
      /\ arc_connectors[i].angle % 360
           = get_angle_degree_of_point(P2D(arc_connectors[i].x, arc_connectors[i].y)) % 360

\* C13, amended: via v is on the inside ring for even v and on the outside ring
\* for odd v, at (ringRadius * cos a, ringRadius * sin a) with a = k *
\* 360/ringCount, k = v div 2: 0 degrees lies along +x and the sweep goes
\* toward +y, which is get_point_on_circle(90 - a, ringRadius).  Via 0 lies at
\* (innerRadius, 0); the stored angle is a, and get_angle_degree_of_point of
\* the position is 90 - a modulo 360.
C13_ViaPlacement ==
  (layer_count >= 1 /\ ViasReturned) =>
    \A i \in 1..Len(arc_connectors) :
      /\ Near(P2D(arc_connectors[i].x, arc_connectors[i].y),
              get_point_on_circle(90 - RingAngle(i - 1), RingRadius(i - 1)))
      /\ Near(P2D(arc_connectors[i].x, arc_connectors[i].y),
              P2D(RoundDiv(Cos(RingAngle(i - 1)) * RingRadius(i - 1), TRIG),
                  RoundDiv(Sin(RingAngle(i - 1)) * RingRadius(i - 1), TRIG)))
      /\ i = 1 => P2D(arc_connectors[i].x, arc_connectors[i].y) = P2D(RingRadius(0), 0)
      /\ arc_connectors[i].angle = RingAngle(i - 1)
      /\ get_angle_degree_of_point(P2D(arc_connectors[i].x, arc_connectors[i].y)) % 360
           = (90 - arc_connectors[i].angle) % 360
      /\ vias[i].e.at = P2D(arc_connectors[i].x, arc_connectors[i].y)

C13_Witness ==
  /\ pc = "done" /\ layer_count = 5 /\ Len(arc_connectors) = 5
  /\ arc_connectors[3].angle = 120
  /\ arc_connectors[3].x < 0 /\ arc_connectors[3].y > 0
  /\ arc_connectors[4].angle = 180 /\ arc_connectors[4].x < 0 /\ arc_connectors[4].y = 0

\* the spiral ends of a layer: the inner point, and the outer point reached
\* after turns_per_layer turns
InnerPoint == P2D(start_radius, 0)
OuterPoint == P2D(start_radius + turns_per_layer * (trace_width + trace_spacing), 0)

\* C14 as claimed: on an even layer i the first bridge (to anchors[i-1]) starts
\* from the inner point and the second (to anchors[i]) from the outer point; on
\* an odd layer the two are swapped.
C14_BridgeEnds_Claimed ==
  turns_per_layer >= 1 =>
    \A j \in 1..Len(bridges) :
      BridgeStart(bridges[j]) =
        IF (bridges[j].layer % 2 = 0) = (bridges[j].index = bridges[j].layer - 1)
        THEN InnerPoint ELSE OuterPoint

\* C14, amended: on an even layer i the first bridge (to anchors[i-1]) starts
\* from the outer point (startRadius + T*(w+s), 0) and the second (to
\* anchors[i]) from the inner point (startRadius, 0); on an odd layer the first
\* starts from the inner point and the second from the outer point.
C14_BridgeEnds ==
  turns_per_layer >= 1 =>
    \A j \in 1..Len(bridges) :
      /\ bridges[j].index \in {bridges[j].layer - 1, bridges[j].layer}
      /\ BridgeStart(bridges[j]) =
           IF (bridges[j].layer % 2 = 0) = (bridges[j].index = bridges[j].layer - 1)
           THEN OuterPoint ELSE InnerPoint
      /\ bridges[j].loop_end_point = BridgeStart(bridges[j])
      /\ bridges[j].inside = (BridgeStart(bridges[j]) = InnerPoint)

C14_Witness ==
  /\ pc = "done" /\ layer_count = 3 /\ turns_per_layer = 2 /\ Len(bridges) = 5
  /\ bridges[2].layer = 1 /\ bridges[2].index = 0 /\ BridgeStart(bridges[2]) = InnerPoint
  /\ bridges[4].layer = 2 /\ bridges[4].index = 1 /\ BridgeStart(bridges[4]) = OuterPoint
  /\ bridges[5].layer = 2 /\ bridges[5].index = 2 /\ BridgeStart(bridges[5]) = InnerPoint

\* C15: for every layer i in [0, L) generate_coil_spiral calls connect_via
\* towards arc_connectors[i-1] iff i > 0 and then towards arc_connectors[i] iff
\* i < L-1 or L is odd, and makes no other call: the calls are, in order,
\* (layer 0, via 0), (1, 0), (1, 1), (2, 1), ..., and when generate_coil_spiral
\* has returned there are 2L-1 of them for odd L and 2L-2 for even L.
C15_BridgeCalls ==
  layer_count >= 1 =>
    /\ \A j \in 1..Len(bridges) :
         /\ bridges[j].layer = j \div 2
         /\ bridges[j].index = (j - 1) \div 2
         /\ bridges[j].layer < layer_count
    /\ SpiralReturned =>
         /\ Len(bridges) = IF layer_count % 2 = 1 THEN 2 * layer_count - 1
                           ELSE 2 * layer_count - 2
         /\ \A i \in 0..(layer_count - 1) :
              /\ (\E j \in 1..Len(bridges) :
                    bridges[j].layer = i /\ bridges[j].index = i - 1) <=> i > 0
              /\ (\E j \in 1..Len(bridges) :
                    bridges[j].layer = i /\ bridges[j].index = i)
                   <=> (i < layer_count - 1 \/ layer_count % 2 = 1)

C15_Witness ==
  /\ pc = "done" /\ layer_count = 4 /\ Len(bridges) = 6
  /\ bridges[6].layer = 3 /\ bridges[6].index = 2
  /\ bridges[5].layer = 2 /\ bridges[5].index = 2

\* the number of arcs the call b of connect_via appended, and its closing line
BridgeArcCount(b) == (IF b.half THEN 1 ELSE 0) + (IF b.partial THEN 1 ELSE 0)
BridgeLine(b) == lines[b.lines_at + 1]

\* the end point of the half circle of b: opposite the spiral end
OppositePoint(b) ==
  P2D(-(IF b.inside THEN b.target_radius ELSE b.target_radius - increment), 0)

\* C16: every call of connect_via emits exactly one straight line, after the
\* arcs of that call, which ends at the exact via position and starts at the
\* current point: the spiral end if no arc was emitted, the opposite point if
\* only the half circle was, and the nearest point if the partial arc was.
C16_ClosingLine ==
  /\ Cardinality({i \in 1..Len(lines) : lines[i].by = "bridge"}) = Len(bridges)
  /\ \A j \in 1..Len(bridges) :
       /\ BridgeLine(bridges[j]).by = "bridge"
       /\ BridgeLine(bridges[j]).e.kind = "fp_line"
       /\ BridgeLine(bridges[j]).e.layer = layer_names[bridges[j].layer + 1]
       /\ BridgeLine(bridges[j]).e.end
            = P2D(arc_connectors[bridges[j].index + 1].x,
                  arc_connectors[bridges[j].index + 1].y)
       /\ BridgeLine(bridges[j]).e.end = vias[bridges[j].index + 1].e.at
       /\ BridgeLine(bridges[j]).e.start
            = IF bridges[j].partial THEN bridges[j].nearest
              ELSE IF bridges[j].half THEN OppositePoint(bridges[j])
              ELSE bridges[j].loop_end_point
       /\ j < Len(bridges) => bridges[j + 1].lines_at = bridges[j].lines_at + 1
       /\ j < Len(bridges) =>
            bridges[j + 1].arcs_at >= bridges[j].arcs_at + BridgeArcCount(bridges[j])
       /\ BridgeArcCount(bridges[j]) > 0 =>
            /\ arcs[bridges[j].arcs_at + BridgeArcCount(bridges[j])].by
                 = IF bridges[j].partial THEN "partial" ELSE "half"
            /\ ArcTo(arcs[bridges[j].arcs_at + BridgeArcCount(bridges[j])].e)
                 = BridgeLine(bridges[j]).e.start

C16_Witness ==
  /\ pc = "done" /\ layer_count = 5 /\ turns_per_layer = 2
  /\ \E j \in 1..Len(bridges) :
       /\ ~bridges[j].half /\ ~bridges[j].partial
       /\ BridgeLine(bridges[j]).e.start = bridges[j].loop_end_point
  /\ \E j \in 1..Len(bridges) :
       /\ bridges[j].half /\ ~bridges[j].partial
       /\ BridgeLine(bridges[j]).e.start = OppositePoint(bridges[j])
  /\ \E j \in 1..Len(bridges) :
       /\ bridges[j].partial
       /\ BridgeLine(bridges[j]).e.start = bridges[j].nearest

\* the via the call b of connect_via went to, and the two gates of the call
Anchor(b) == P2D(arc_connectors[b.index + 1].x, arc_connectors[b.index + 1].y)
Bridging(b) == get_point_distance(b.loop_end_point, Anchor(b)) >= 3 * increment
HalfGate(b) ==
  get_angle_degree_between(b.loop_end_point, b.nearest, b.inside = b.clockwise) >= 180
PartialGate(b) ==
  get_angle_degree_between(IF b.half THEN OppositePoint(b) ELSE b.loop_end_point,
                           b.nearest, b.inside = b.clockwise) * UNIT >= 3 * increment

FullSweep(b) ==
  get_angle_degree_between(b.loop_end_point, b.nearest, b.inside = b.clockwise)
RemainingSweep(b) ==
  get_angle_degree_between(IF b.half THEN OppositePoint(b) ELSE b.loop_end_point,
                           b.nearest, b.inside = b.clockwise)

\* the sweep of the arc e that the call b emitted, in the direction of the call
ArcSweep(b, e) ==
  get_angle_degree_between(ArcFrom(e), ArcTo(e), b.inside = b.clockwise)

\* the arcs list from the arcs of call number j on, up to the next call
ArcsUpToNext(j) ==
  (bridges[j].arcs_at + 1)..(IF j < Len(bridges) THEN bridges[j + 1].arcs_at
                             ELSE Len(arcs))

\* C18: every call of connect_via emits at most two arcs, at most one half
\* circle and then at most one partial arc; when the half circle is emitted the
\* sweep that remains from the opposite point is the original sweep minus 180,
\* hence < 180; the partial arc always spans less than 180 degrees and the arcs
\* of one call less than 360 degrees.
C18_LessThanOneTurn ==
  \A j \in 1..Len(bridges) :
    /\ Cardinality({i \in ArcsUpToNext(j) : arcs[i].by # "loop"}) <= 2
    /\ Cardinality({i \in ArcsUpToNext(j) : arcs[i].by = "half"}) <= 1
    /\ Cardinality({i \in ArcsUpToNext(j) : arcs[i].by = "partial"}) <= 1
    /\ \A i \in ArcsUpToNext(j) :
         /\ arcs[i].by = "half" => i = bridges[j].arcs_at + 1
         /\ arcs[i].by = "partial" =>
              i = bridges[j].arcs_at + (IF bridges[j].half THEN 2 ELSE 1)
         /\ arcs[i].by = "loop" => i > bridges[j].arcs_at + BridgeArcCount(bridges[j])
    /\ bridges[j].half =>
         /\ RemainingSweep(bridges[j]) = FullSweep(bridges[j]) - 180
         /\ RemainingSweep(bridges[j]) < 180
    /\ bridges[j].half => ArcSweep(bridges[j], arcs[bridges[j].arcs_at + 1].e) = 180
    /\ bridges[j].partial =>
         /\ ArcSweep(bridges[j],
                     arcs[bridges[j].arcs_at + BridgeArcCount(bridges[j])].e)
              = RemainingSweep(bridges[j])
         /\ RemainingSweep(bridges[j]) < 180
    /\ (IF bridges[j].half
        THEN ArcSweep(bridges[j], arcs[bridges[j].arcs_at + 1].e) ELSE 0)
         + (IF bridges[j].partial
            THEN ArcSweep(bridges[j],
                          arcs[bridges[j].arcs_at + BridgeArcCount(bridges[j])].e)
            ELSE 0) < 360

C18_Witness ==
  /\ pc = "done" /\ layer_count = 5 /\ turns_per_layer = 2
  /\ \E j \in 1..Len(bridges) :
       /\ bridges[j].half /\ bridges[j].partial
       /\ FullSweep(bridges[j]) = 240 /\ RemainingSweep(bridges[j]) = 60
       /\ arcs[bridges[j].arcs_at + 1].by = "half"
       /\ arcs[bridges[j].arcs_at + 2].by = "partial"

\* the layers whose calls of connect_via went to via number k
LayersTo(k) == {bridges[j].layer : j \in {i \in 1..Len(bridges) : bridges[i].index = k}}

\* C19: for every L >= 1 every via index generate_coil_spiral uses lies in
\* [0, via count), and every planned via is the target of a bridge: vias
\* 0..L-2 of exactly the two adjacent layers i and i+1, and the pad-2 via
\* (index L-1, only for odd L) of exactly one layer.
C19_ViasConsumed ==
  layer_count >= 1 =>
    /\ \A j \in 1..Len(bridges) :
         bridges[j].index >= 0 /\ bridges[j].index < Len(arc_connectors)
    /\ (pc = "error" /\ error = "IndexError") =>
         (Len(layer_names) < layer_count /\ layer >= Len(layer_names))
    /\ ViasReturned =>
         Len(vias) = IF layer_count % 2 = 1 THEN layer_count ELSE layer_count - 1
    /\ SpiralReturned =>
         \A k \in 0..(Len(vias) - 1) :
           /\ LayersTo(k) = IF k <= layer_count - 2 THEN {k, k + 1} ELSE {layer_count - 1}
           /\ Cardinality({j \in 1..Len(bridges) : bridges[j].index = k})
                = IF k <= layer_count - 2 THEN 2 ELSE 1
           /\ (vias[k + 1].e.padnum = 2) <=> (k = layer_count - 1)
           /\ k = layer_count - 1 => layer_count % 2 = 1

C19_Witness ==
  /\ pc = "done" /\ layer_count = 5 /\ Len(vias) = 5
  /\ LayersTo(3) = {3, 4} /\ LayersTo(4) = {4}
  /\ vias[5].e.padnum = 2

\* the call recorded as b went to the ring of its inside flag, and its target
\* radius lies between the endpoint and that ring, via_diameter from the ring
RingConsistent(b) ==
  /\ b.inside <=> b.index % 2 = 0
  /\ \/ b.end_point_radius < b.target_radius /\ b.target_radius < RingRadius(b.index)
     \/ RingRadius(b.index) < b.target_radius /\ b.target_radius < b.end_point_radius
  /\ \/ b.target_radius - RingRadius(b.index) = via_diameter
     \/ RingRadius(b.index) - b.target_radius = via_diameter

\* C20 as stated: with all dimensions > 0, every bridge made during generation
\* is ring consistent, whatever the number of turns per layer.
C20_RingConsistency_Claimed ==
  \A j \in 1..Len(bridges) : RingConsistent(bridges[j])

\* C20: with all dimensions > 0 and turnsPerLayer >= 0, a bridge called with
\* inside = true targets an even-indexed (inside-ring) anchor and one with
\* inside = false an odd-indexed (outside-ring) anchor, and its target radius
\* lies strictly between the spiral endpoint radius and the target via-ring
\* radius, at distance exactly viaDiameter from that ring.
C20_RingConsistency ==
  turns_per_layer >= 0 =>
    \A j \in 1..Len(bridges) : RingConsistent(bridges[j])

C20_Witness ==
  /\ pc = "done" /\ layer_count = 4 /\ turns_per_layer = 2
  /\ \E i, j \in 1..Len(bridges) :
       /\ bridges[i].inside /\ ~bridges[j].inside
       /\ bridges[i].index = 2 /\ bridges[j].index = 1
       /\ bridges[i].end_point_radius - bridges[i].target_radius = trace_width + trace_spacing
       /\ bridges[i].target_radius - RingRadius(2) = via_diameter
       /\ RingRadius(1) - bridges[j].target_radius = via_diameter

\* the half circle the call b emitted, and the radius of its midpoint
HalfArc(b) == arcs[b.arcs_at + 1].e
ArcCenterRadius(b) ==
  IF b.inside THEN b.target_radius + increment \div 2
  ELSE b.target_radius - increment

\* C21: the half circle of a bridge is drawn on the side the gating direction
\* d = (inside == windClockwise) measures: the spiral end lies on the +x axis,
\* the arc's midpoint is (0, +/-arcCenterRadius) at 90 degrees from the spiral
\* end in direction d, and its end point is the opposite point at 180 degrees
\* in direction d, for all four combinations of inside and windClockwise.
C21_HalfCircleSide ==
  \A j \in 1..Len(bridges) :
    bridges[j].half =>
      /\ arcs[bridges[j].arcs_at + 1].by = "half"
      /\ bridges[j].loop_end_point.y = 0 /\ bridges[j].loop_end_point.x > 0
      /\ ArcFrom(HalfArc(bridges[j])) = bridges[j].loop_end_point
      /\ ArcTo(HalfArc(bridges[j])) = OppositePoint(bridges[j])
      /\ HalfArc(bridges[j]).mid
           = P2D(0, IF (bridges[j].inside = bridges[j].clockwise) THEN ArcCenterRadius(bridges[j])
                    ELSE -ArcCenterRadius(bridges[j]))
      /\ ArcCenterRadius(bridges[j]) > 0
      /\ get_angle_degree_between(bridges[j].loop_end_point, HalfArc(bridges[j]).mid,
                                  (bridges[j].inside = bridges[j].clockwise)) = 90
      /\ get_angle_degree_between(bridges[j].loop_end_point,
                                  ArcTo(HalfArc(bridges[j])),
                                  (bridges[j].inside = bridges[j].clockwise)) = 180

C21_Witness ==
  /\ pc = "done"
  /\ \A i \in BOOLEAN : \A cw \in BOOLEAN :
       \E j \in 1..Len(bridges) :
         /\ bridges[j].half /\ bridges[j].inside = i /\ bridges[j].clockwise = cw
         /\ HalfArc(bridges[j]).mid.y # 0
         /\ (HalfArc(bridges[j]).mid.y > 0) <=> (i = cw)

\* len() of a Python list: the number of elements its entries take
RECURSIVE ListLen(_)
ListLen(list) == IF list = << >> THEN 0 ELSE Head(list).n + ListLen(Tail(list))

\* C22: each element of the arcs list and of the lines list returned by
\* connect_via, generate_coil_spiral and generate_pads is one complete serialised
\* entity, so the list lengths equal the numbers of entities emitted: 2*T*L
\* spiral arcs plus the bridge arcs, and one line per bridge call plus 2 or 4
\* breakout lines.
C22_OneEntityPerElement ==
  (layer_count >= 1 /\ turns_per_layer >= 1) =>
    /\ \A i \in 1..Len(arcs) : arcs[i].n = 1
    /\ \A i \in 1..Len(lines) : lines[i].n = 1
    /\ SpiralReturned =>
         /\ ListLen(arcs) = 2 * turns_per_layer * layer_count
                            + Cardinality({i \in 1..Len(arcs) :
                                             arcs[i].by \in {"half", "partial"}})
         /\ ListLen(lines) >= Len(bridges)
    /\ PadsReturned =>
         ListLen(lines) = Len(bridges) + (IF layer_count % 2 = 0 THEN 4 ELSE 2)

\* what the lists hold instead: an arc or line of connect_via takes as many
\* elements as its text has characters
C22_Divergence ==
  /\ pc = "done" /\ layer_count = 2 /\ turns_per_layer = 1
  /\ Len(bridges) = 2 /\ Len(lines) = 6 /\ Len(arcs) >= 4
  /\ ListLen(lines) > 300
  /\ \A i \in 1..Len(lines) :
       lines[i].n = IF lines[i].by = "bridge" THEN StrLen(lines[i].e) ELSE 1

\* the slots the footprint number k of the selection was put on
SlotsOf(k) == {moves[k][m].slot : m \in 1..Len(moves[k])}

\* C23: when Run completes after OK with valid numeric settings and n >= 2
\* selected footprints, every selected footprint is repositioned exactly once
\* and the n slots i = 0..n-1 (angle start + i*step) are occupied by n distinct
\* footprints, with the custom order or the natural-sort fallback and also when
\* several selected footprints share a reference; with fewer than 2 selected
\* footprints, a cancelled dialog or an unparsable number no footprint is moved.
C23_EveryFootprintPlacedOnce ==
  /\ rpc = "done" =>
       /\ Len(footprints) >= 2
       /\ \A k \in 1..Len(footprints) : Len(moves[k]) = 1
       /\ \A i \in 0..(Len(footprints) - 1) :
            \E k \in 1..Len(footprints) :
              /\ SlotsOf(k) = {i}
              /\ moves[k][1].angle = START_ANGLE + i * angle_step
       /\ \A k, m \in 1..Len(footprints) : k # m => SlotsOf(k) # SlotsOf(m)
  /\ rpc = "returned" => \A k \in 1..Len(footprints) : moves[k] = << >>

\* what Run does with two footprints of one reference: the dictionary keeps the
\* later one, which is put on two slots, and the earlier one stays where it was
C23_Divergence ==
  /\ rpc = "done"
  /\ footprints = <<"R2", "R2", "R10">>
  /\ custom_order = <<"R2", "R2", "R10">>
  /\ ordered = <<2, 2, 3>>
  /\ moves[1] = << >>
  /\ SlotsOf(2) = {0, 1}
  /\ SlotsOf(3) = {2}

=============================================================================
